---- MODULE Spec2Model ----
(***************************************************************************)
(* State-machine model of four pieces of the AWS Toolkit extension:        *)
(*   - NotificationInfoStore   (src/src/mynah/stores/notificationsInfoStore.ts)       *)
(*   - initMessageHandler      (src/src/applicationcomposer/messageHandlers/initMessageHandler.ts) *)
(*   - IotPolicyWithVersionsNode.getChildren, as exercised by              *)
(*     src/src/test/iot/explorer/iotPolicyNode.test.ts                     *)
(*   - isDifferentVersion, showWelcomeMessage and ExtensionUserActivity    *)
(*     (src/unnamed/part_000)                                              *)
(* Each piece has its own next-state relation and specification; the       *)
(* variables of the other pieces stay at their initial values.             *)
(***************************************************************************)
EXTENDS Integers, Sequences, FiniteSets, TLC

(***************************************************************************)
(* Bounds of the model.                                                    *)
(***************************************************************************)
MaxCalls == 3
MaxClock == 1
NumProcs == 2
MaxPathLen == 3
NumInits == 2
MaxVersions == 3
MaxWelcomes == 2
MaxDelay == 3
MaxTime == 6

(***************************************************************************)
(* The variables of the other pieces (described where they are used).      *)
(***************************************************************************)
VARIABLES defaultTemplatePath, initPc, filePath, authState, posted

initVars == <<defaultTemplatePath, initPc, filePath, authState, posted>>

VARIABLES policy, versions, childPc, request, yielded, children

childVars == <<policy, versions, childPc, request, yielded, children>>

VARIABLES envReady, devEnvId, ide, computeRegion, packageVersion, extensionVersion,
          mostRecentVersion, warnings, toasts, welcomeOutcome, welcomes, storedBefore,
          diffResult

welcomeVars == <<envReady, devEnvId, ide, computeRegion, packageVersion, extensionVersion,
                 mostRecentVersion, warnings, toasts, welcomeOutcome, welcomes,
                 storedBefore, diffResult>>

VARIABLES built, customEvents, delay, disposed, clock, lastArgs, lastCallTime,
          lastInvokeTime, timerId, prevFire, lastFire, justFired, triggered, lastStep

activityVars == <<built, customEvents, delay, disposed, clock, lastArgs, lastCallTime,
                  lastInvokeTime, timerId, prevFire, lastFire, justFired, triggered,
                  lastStep>>

notStore == <<initVars, childVars, welcomeVars, activityVars>>
notHandler == <<childVars, welcomeVars, activityVars>>
notChildren == <<initVars, welcomeVars, activityVars>>
notWelcome == <<initVars, childVars, activityVars>>
notActivity == <<initVars, childVars, welcomeVars>>

(***************************************************************************)
(* NotificationInfoStore                                                   *)
(*                                                                         *)
(* A Memento is the host's key-value store.  JavaScript objects are        *)
(* references, so the model keeps a heap of record objects: a store slot   *)
(* and an operation's local variable `record` hold object ids (0 is        *)
(* undefined).  Whether get() hands out the stored object itself (what an  *)
(* in-memory Memento does) or a copy of it is the host's choice, fixed per *)
(* run (getShares).  update() keeps a serialised copy of the object it is  *)
(* given; a method never touches its object after update(), so a store     *)
(* that kept the object itself would hold the same values.                 *)
(* Every async method runs synchronously up to its first await; the reads  *)
(* therefore happen in the call step, the modification and the update()    *)
(* in the step that resumes after the awaited read, and the method         *)
(* completes in a last step, when the awaited update() resolves.           *)
(***************************************************************************)
VARIABLES
    heap,         \* sequence of the live record objects; an object id is an index
    globalStore,  \* key -> object id, 0 when the key is absent
    workplaceStore,
    getShares,    \* host: get() hands out the stored object itself, not a copy
    now,          \* the clock read by new Date().getTime()
    pc,           \* per invocation: "idle", "read" (awaiting the read), "updating"
    call,         \* per invocation: the method called and its arguments
    record,       \* per invocation: the local variable `record` (object id)
    calls,        \* number of invocations made so far
    \* history variables, read by the properties only
    seen,         \* per invocation: <<value read at the call>>, << >> when undefined
    seqFromEmpty, \* per name: the global key saw only non-overlapping calls, no addRecord
    seqViews,     \* per name: addNewViewToNotificationInGlobalStore calls that have written
    lastViewStart \* per name: the clock when the latest such call was made

storeVars == <<heap, globalStore, workplaceStore, getShares, now, pc, call,
               record, calls, seen, seqFromEmpty, seqViews, lastViewStart>>

NameSeq == <<"a", "b">>
Names == {NameSeq[i] : i \in DOMAIN NameSeq}
Stores == {"global", "workplace"}
Procs == 1..NumProcs

StorageKey == "NOTIFICATION_INFO_"

\* Variant: the key leaves the notification name out.
KeyOfPrefixOnly(notificationName) == StorageKey

KeyOf(notificationName) == StorageKey \o notificationName

\* The keys of a Memento that matter here: the prefix followed by a name or by nothing.
Keys == {StorageKey \o suffix : suffix \in Names \cup {""}}

getEmptyRecord(notificationName) ==
    [notificationName |-> notificationName, viewsCounter |-> 0, lastSeen |-> 0,
     muted |-> FALSE]

\* Variant: builds the muted record afresh, dropping the other fields.
SetMutedFresh(r, isMuted) ==
    [notificationName |-> r.notificationName, viewsCounter |-> 0, lastSeen |-> 0,
     muted |-> isMuted]

\* record.muted = isMuted
SetMuted(r, isMuted) == [r EXCEPT !.muted = isMuted]

\* Variant: stamps the time but forgets the increment.
AddViewNoIncrement(r, time) == [r EXCEPT !.lastSeen = time]

\* record.viewsCounter = record.viewsCounter + 1 ; record.lastSeen = new Date().getTime()
AddView(r, time) == [r EXCEPT !.viewsCounter = @ + 1, !.lastSeen = time]

Memento(s) == IF s = "global" THEN globalStore ELSE workplaceStore

\* The value a get of the key returns now: << >> for undefined, <<r>> for a record.
ValueAt(s, key) ==
    IF Memento(s)[key] = 0 THEN << >> ELSE << heap[Memento(s)[key]] >>

getRecordFromGlobalStore(notificationName) == ValueAt("global", KeyOf(notificationName))

getRecordFromWorkplaceStore(notificationName) ==
    ValueAt("workplace", KeyOf(notificationName))

\* The records a caller passes to addRecordTo<s>Store.
InputRecords ==
    {[notificationName |-> n, viewsCounter |-> 1, lastSeen |-> 0, muted |-> m] :
        n \in Names, m \in BOOLEAN}

NoCall == [kind |-> "none", store |-> "global", name |-> NameSeq[1], muted |-> FALSE]

InFlightOn(s, n) == {q \in Procs : pc[q] # "idle" /\ call[q].store = s /\ call[q].name = n}

\* A new invocation takes the first free invocation slot (the slots are interchangeable).
FirstIdle(p) == pc[p] = "idle" /\ \A q \in Procs : q < p => pc[q] # "idle"

(***************************************************************************)
(* Garbage collection: an object no store and no suspended method refers   *)
(* to is dropped, and the live objects are numbered in the order the       *)
(* stores and the invocations refer to them.                               *)
(***************************************************************************)
RECURSIVE LiveIds(_, _, _)
LiveIds(refs, i, acc) ==
    IF i > Len(refs) THEN acc
    ELSE LiveIds(refs, i + 1,
                 IF refs[i] = 0 \/ \E j \in DOMAIN acc : acc[j] = refs[i]
                 THEN acc ELSE Append(acc, refs[i]))

Refs(g, w, rec) ==
    [i \in 1..(2 * Len(NameSeq) + NumProcs) |->
        IF i <= Len(NameSeq) THEN g[KeyOf(NameSeq[i])]
        ELSE IF i <= 2 * Len(NameSeq) THEN w[KeyOf(NameSeq[i - Len(NameSeq)])]
        ELSE rec[i - 2 * Len(NameSeq)]]

NewId(order, id) == IF id = 0 THEN 0 ELSE CHOOSE i \in DOMAIN order : order[i] = id

\* The next heap, stores and locals, from their values h, g, w, rec after the step.
Commit(h, g, w, rec) ==
    LET order == LiveIds(Refs(g, w, rec), 1, << >>)
    IN  /\ heap' = [i \in DOMAIN order |-> h[order[i]]]
        /\ globalStore' = [k \in Keys |-> NewId(order, g[k])]
        /\ workplaceStore' = [k \in Keys |-> NewId(order, w[k])]
        /\ record' = [p \in Procs |-> NewId(order, rec[p])]

\* memento.update(key, obj) on heap h: the new heap and the id the store keeps.
UpdatedHeap(h, obj) == Append(h, h[obj])

UpdatedId(h, obj) == Len(h) + 1

\* Variant: writes a key only while it is absent.
StoreAfterIfAbsent(m, s, t, key, id) ==
    IF s = t /\ m[key] = 0 THEN [m EXCEPT ![key] = id] ELSE m

StoreAfter(m, s, t, key, id) == IF s = t THEN [m EXCEPT ![key] = id] ELSE m

\* addRecordTo<s>Store(r): update() is called before the first await.
AddRecordTo(p, s, r) ==
    /\ FirstIdle(p) /\ calls < MaxCalls
    /\ LET h1 == Append(heap, r)
           id == UpdatedId(h1, Len(h1))
           key == KeyOf(r.notificationName)
       IN  Commit(UpdatedHeap(h1, Len(h1)),
                  StoreAfter(globalStore, s, "global", key, id),
                  StoreAfter(workplaceStore, s, "workplace", key, id),
                  record)
    /\ pc' = [pc EXCEPT ![p] = "updating"]
    /\ call' = [call EXCEPT ![p] = [kind |-> "addRecord", store |-> s,
                                    name |-> r.notificationName, muted |-> r.muted]]
    /\ seen' = [seen EXCEPT ![p] = << >>]
    /\ calls' = calls + 1
    /\ seqFromEmpty' = IF s = "global"
                       THEN [seqFromEmpty EXCEPT ![r.notificationName] = FALSE]
                       ELSE seqFromEmpty
    /\ UNCHANGED <<getShares, now, seqViews, lastViewStart, notStore>>

addRecordToWorkplaceStore(p, r) == AddRecordTo(p, "workplace", r)

addRecordToGlobalStore(p, r) == AddRecordTo(p, "global", r)

\* The synchronous part of a method that starts with `await this.getRecordFrom<s>Store(name)`:
\* memento.get(key) runs, then the method suspends.
ReadCall(p, kind, s, n, isMuted) ==
    /\ FirstIdle(p) /\ calls < MaxCalls
    /\ LET id == Memento(s)[KeyOf(n)]
       IN  IF id = 0 \/ getShares
           THEN Commit(heap, globalStore, workplaceStore, [record EXCEPT ![p] = id])
           ELSE Commit(Append(heap, heap[id]), globalStore, workplaceStore,
                       [record EXCEPT ![p] = Len(heap) + 1])
    /\ pc' = [pc EXCEPT ![p] = "read"]
    /\ call' = [call EXCEPT ![p] = [kind |-> kind, store |-> s, name |-> n,
                                    muted |-> isMuted]]
    /\ seen' = [seen EXCEPT ![p] = ValueAt(s, KeyOf(n))]
    /\ calls' = calls + 1
    /\ lastViewStart' = IF kind = "addView" /\ s = "global"
                        THEN [lastViewStart EXCEPT ![n] = now]
                        ELSE lastViewStart
    /\ seqFromEmpty' = IF s = "global" /\ InFlightOn(s, n) # {}
                       THEN [seqFromEmpty EXCEPT ![n] = FALSE]
                       ELSE seqFromEmpty
    /\ UNCHANGED <<getShares, now, seqViews, notStore>>

setMuteStatusInWorkplaceStore(p, n, isMuted) == ReadCall(p, "setMute", "workplace", n, isMuted)

setMuteStatusInGlobalStore(p, n, isMuted) == ReadCall(p, "setMute", "global", n, isMuted)

addNewViewToNotificationInWorkplaceStore(p, n) == ReadCall(p, "addView", "workplace", n, FALSE)

addNewViewToNotificationInGlobalStore(p, n) == ReadCall(p, "addView", "global", n, FALSE)

GetRecordCall(p, s, n) == ReadCall(p, "get", s, n, FALSE)

\* The record after the method's assignments, from the value v its `record` holds.
Modified(c, v) ==
    IF c.kind = "setMute" THEN SetMuted(v, c.muted) ELSE AddView(v, now)

\* A setMuteStatus / addNewView method resumes after the awaited read: it replaces
\* undefined by the empty record, assigns the fields and calls update().  The local
\* `record` is dead from then on.
ResumeWrite(p) ==
    /\ pc[p] = "read" /\ call[p].kind \in {"setMute", "addView"}
    /\ LET c == call[p]
           absent == record[p] = 0
           v == Modified(c, IF absent THEN getEmptyRecord(c.name) ELSE heap[record[p]])
           h1 == IF absent THEN Append(heap, v) ELSE [heap EXCEPT ![record[p]] = v]
           obj == IF absent THEN Len(heap) + 1 ELSE record[p]
           id == UpdatedId(h1, obj)
           key == KeyOf(c.name)
       IN  /\ Commit(UpdatedHeap(h1, obj),
                     StoreAfter(globalStore, c.store, "global", key, id),
                     StoreAfter(workplaceStore, c.store, "workplace", key, id),
                     [record EXCEPT ![p] = 0])
           /\ seqViews' = IF c.kind = "addView" /\ c.store = "global"
                          THEN [seqViews EXCEPT ![c.name] = @ + 1]
                          ELSE seqViews
    /\ pc' = [pc EXCEPT ![p] = "updating"]
    /\ UNCHANGED <<getShares, now, call, calls, seen, seqFromEmpty, lastViewStart, notStore>>

\* The method returns: its invocation slot is free again.
Return(p) ==
    /\ pc' = [pc EXCEPT ![p] = "idle"]
    /\ call' = [call EXCEPT ![p] = NoCall]
    /\ seen' = [seen EXCEPT ![p] = << >>]

\* getRecordFrom<s>Store resumes and returns what get() gave it.
ResumeGet(p) ==
    /\ pc[p] = "read" /\ call[p].kind = "get"
    /\ Commit(heap, globalStore, workplaceStore, [record EXCEPT ![p] = 0])
    /\ Return(p)
    /\ UNCHANGED <<getShares, now, calls, seqFromEmpty, seqViews, lastViewStart, notStore>>

\* The awaited update() resolves and the method returns.
Complete(p) ==
    /\ pc[p] = "updating"
    /\ Return(p)
    /\ UNCHANGED <<heap, globalStore, workplaceStore, getShares, now,
                   record, calls, seqFromEmpty, seqViews, lastViewStart, notStore>>

Tick ==
    /\ now < MaxClock
    /\ now' = now + 1
    /\ UNCHANGED <<heap, globalStore, workplaceStore, getShares, pc, call,
                   record, calls, seen, seqFromEmpty, seqViews, lastViewStart, notStore>>

StoreInit ==
    /\ heap = << >>
    /\ globalStore = [k \in Keys |-> 0]
    /\ workplaceStore = [k \in Keys |-> 0]
    /\ getShares \in BOOLEAN
    /\ now = 0
    /\ pc = [p \in Procs |-> "idle"]
    /\ call = [p \in Procs |-> NoCall]
    /\ record = [p \in Procs |-> 0]
    /\ calls = 0
    /\ seen = [p \in Procs |-> << >>]
    /\ seqFromEmpty = [n \in Names |-> TRUE]
    /\ seqViews = [n \in Names |-> 0]
    /\ lastViewStart = [n \in Names |-> 0]

\* Callers that await each call before the next one: no two invocations overlap.
NoneInFlight == \A q \in Procs : pc[q] = "idle"

StoreNext ==
    \/ \E p \in Procs, r \in InputRecords : NoneInFlight /\ addRecordToWorkplaceStore(p, r)
    \/ \E p \in Procs, r \in InputRecords : NoneInFlight /\ addRecordToGlobalStore(p, r)
    \/ \E p \in Procs, n \in Names, m \in BOOLEAN :
          NoneInFlight /\ setMuteStatusInWorkplaceStore(p, n, m)
    \/ \E p \in Procs, n \in Names, m \in BOOLEAN :
          NoneInFlight /\ setMuteStatusInGlobalStore(p, n, m)
    \/ \E p \in Procs, n \in Names :
          NoneInFlight /\ addNewViewToNotificationInWorkplaceStore(p, n)
    \/ \E p \in Procs, n \in Names :
          NoneInFlight /\ addNewViewToNotificationInGlobalStore(p, n)
    \/ \E p \in Procs, s \in Stores, n \in Names : NoneInFlight /\ GetRecordCall(p, s, n)
    \/ \E p \in Procs : ResumeWrite(p)
    \/ \E p \in Procs : ResumeGet(p)
    \/ \E p \in Procs : Complete(p)
    \/ Tick

\* Callers that do not await: invocations on one notification name overlap freely.
RaceNames == {NameSeq[1]}

RaceNext ==
    \/ \E p \in Procs, r \in InputRecords :
          r.notificationName \in RaceNames /\ addRecordToWorkplaceStore(p, r)
    \/ \E p \in Procs, r \in InputRecords :
          r.notificationName \in RaceNames /\ addRecordToGlobalStore(p, r)
    \/ \E p \in Procs, n \in RaceNames, m \in BOOLEAN : setMuteStatusInWorkplaceStore(p, n, m)
    \/ \E p \in Procs, n \in RaceNames, m \in BOOLEAN : setMuteStatusInGlobalStore(p, n, m)
    \/ \E p \in Procs, n \in RaceNames : addNewViewToNotificationInWorkplaceStore(p, n)
    \/ \E p \in Procs, n \in RaceNames : addNewViewToNotificationInGlobalStore(p, n)
    \/ \E p \in Procs : ResumeWrite(p)
    \/ \E p \in Procs : Complete(p)

(***************************************************************************)
(* initMessageHandler                                                      *)
(*                                                                         *)
(* One webview context with its defaultTemplatePath; the webview may send  *)
(* INIT several times, so several invocations of the handler can be        *)
(* suspended on getChatAuthState at once.  A path is a sequence of         *)
(* characters.  `posted` is the sequence of messages handed to             *)
(* context.panel.webview.postMessage, each tagged with its invocation.     *)
(***************************************************************************)
PathChars == {"/", "a", "."}

Paths == UNION {[1..n -> PathChars] : n \in 0..MaxPathLen}

Inits == 1..NumInits

\* The values of FeatureAuthState.codewhispererChat.
ChatAuthStates == {"connected", "expired", "disconnected", "unsupported"}

\* Variant: a trailing separator is not skipped.
RECURSIVE BasenameScanNoSkip(_, _, _, _)
BasenameScanNoSkip(path, i, matchedSlash, end) ==
    IF i < 1 THEN <<1, end>>
    ELSE IF path[i] = "/"
         THEN <<i + 1, IF end = 0 THEN Len(path) ELSE end>>
         ELSE BasenameScanNoSkip(path, i - 1, FALSE, IF end = 0 THEN i ELSE end)

\* The loop of path.basename(path) (POSIX, no suffix argument), scanning from the end:
\* <<start, end>> of the slice, end = 0 when no character other than "/" was met.
RECURSIVE BasenameScan(_, _, _, _)
BasenameScan(path, i, matchedSlash, end) ==
    IF i < 1 THEN <<1, end>>
    ELSE IF path[i] = "/"
         THEN IF ~matchedSlash THEN <<i + 1, end>>
              ELSE BasenameScan(path, i - 1, matchedSlash, end)
         ELSE IF end = 0 THEN BasenameScan(path, i - 1, FALSE, i)
              ELSE BasenameScan(path, i - 1, matchedSlash, end)

basename(path) ==
    LET se == BasenameScan(path, Len(path), TRUE, 0)
    IN  IF se[2] = 0 THEN << >> ELSE SubSeq(path, se[1], se[2])

\* Variant: an expired session does not count as connected.
ConnectedOnly(state) == state = "connected"

\* authState.codewhispererChat === 'connected' || authState.codewhispererChat === 'expired'
isConnectedToCodeWhisperer(state) == state = "connected" \/ state = "expired"

responseMessage(path, state) ==
    [messageType |-> "RESPONSE", command |-> "INIT",
     templateFileName |-> basename(path), templateFilePath |-> path,
     isConnectedToCodeWhisperer |-> isConnectedToCodeWhisperer(state)]

\* The webview panel is created on a template file; context.defaultTemplatePath is
\* fixed from then on.
CreateContext(path) ==
    /\ initPc = [i \in Inits |-> "noContext"]
    /\ defaultTemplatePath' = path
    /\ initPc' = [i \in Inits |-> "idle"]
    /\ UNCHANGED <<filePath, authState, posted>>

\* The handler is called: it reads context.defaultTemplatePath and suspends on
\* getChatAuthState.
initMessageHandler(i) ==
    /\ initPc[i] = "idle"
    /\ \A j \in Inits : j < i => initPc[j] # "idle"
    /\ filePath' = [filePath EXCEPT ![i] = defaultTemplatePath]
    /\ initPc' = [initPc EXCEPT ![i] = "awaitAuth"]
    /\ UNCHANGED <<defaultTemplatePath, authState, posted>>

\* getChatAuthState resolves: the handler builds the response and posts it.
AuthResolved(i, state) ==
    /\ initPc[i] = "awaitAuth"
    /\ authState' = [authState EXCEPT ![i] = state]
    /\ posted' = Append(posted, [by |-> i, message |-> responseMessage(filePath[i], state)])
    /\ initPc' = [initPc EXCEPT ![i] = "returned"]
    /\ UNCHANGED <<defaultTemplatePath, filePath>>

\* getChatAuthState rejects: the await throws and the handler's promise rejects.
AuthRejected(i) ==
    /\ initPc[i] = "awaitAuth"
    /\ initPc' = [initPc EXCEPT ![i] = "threw"]
    /\ UNCHANGED <<defaultTemplatePath, filePath, authState, posted>>

HandlerInit ==
    /\ defaultTemplatePath = << >>
    /\ initPc = [i \in Inits |-> "noContext"]
    /\ filePath = [i \in Inits |-> << >>]
    /\ authState = [i \in Inits |-> "none"]
    /\ posted = << >>

(***************************************************************************)
(* IotPolicyWithVersionsNode.getChildren, set up as in the test: a node    *)
(* built on a policy, over a client whose listPolicyVersions answers the   *)
(* request for that policy's name with an async generator of `versions`.   *)
(* The node class itself is not among the source files; getChildren and    *)
(* the version node are modelled from the specification (section 4.1).     *)
(***************************************************************************)
Policies == {[name |-> "policy", arn |-> "arn"], [name |-> "policy2", arn |-> "arn2"]}

PolicyVersions ==
    {[versionId |-> "V1", isDefaultVersion |-> TRUE],
     [versionId |-> "V2", isDefaultVersion |-> FALSE],
     [versionId |-> "V3", isDefaultVersion |-> FALSE]}

VersionLists == UNION {[1..n -> PolicyVersions] : n \in 0..MaxVersions}

\* when(iot.listPolicyVersions(deepEqual({ policyName }))).thenReturn(asyncGenerator(versions)):
\* the sequence the mocked client yields for a request, << >> for any other request.
listPolicyVersions(req) == IF req = [policyName |-> policy.name] THEN versions ELSE << >>

\* Variant: the node hands the version node a bare version id.
VersionNodeIdOnly(nodePolicy, version) ==
    [type |-> "IotPolicyVersionNode", policy |-> nodePolicy,
     version |-> [versionId |-> version.versionId, isDefaultVersion |-> FALSE]]

IotPolicyVersionNode(nodePolicy, version) ==
    [type |-> "IotPolicyVersionNode", policy |-> nodePolicy, version |-> version]

\* The test's setup: a node on nodePolicy, over a client mocked to yield versionList.
CreateNode(nodePolicy, versionList) ==
    /\ childPc = "noNode"
    /\ policy' = nodePolicy
    /\ versions' = versionList
    /\ childPc' = "idle"
    /\ UNCHANGED <<request, yielded, children>>

\* getChildren is called: it asks the client for the versions of its policy.
getChildren ==
    /\ childPc = "idle"
    /\ request' = [policyName |-> policy.name]
    /\ childPc' = "listing"
    /\ UNCHANGED <<policy, versions, yielded, children>>

\* The generator yields its next version.
YieldVersion ==
    /\ childPc = "listing"
    /\ Len(yielded) < Len(listPolicyVersions(request))
    /\ yielded' = Append(yielded, listPolicyVersions(request)[Len(yielded) + 1])
    /\ UNCHANGED <<policy, versions, childPc, request, children>>

\* The generator is exhausted: each version is wrapped in a node and the list returned.
ReturnChildren ==
    /\ childPc = "listing"
    /\ Len(yielded) = Len(listPolicyVersions(request))
    /\ children' = [i \in 1..Len(yielded) |-> IotPolicyVersionNode(policy, yielded[i])]
    /\ childPc' = "done"
    /\ UNCHANGED <<policy, versions, request, yielded>>

\* The listing fails: the error propagates to the caller.
ListingFails ==
    /\ childPc = "listing"
    /\ childPc' = "failed"
    /\ UNCHANGED <<policy, versions, request, yielded, children>>

ChildrenInit ==
    /\ policy = [name |-> "", arn |-> ""]
    /\ versions = << >>
    /\ childPc = "noNode"
    /\ request = [policyName |-> ""]
    /\ yielded = << >>
    /\ children = << >>

(***************************************************************************)
(* The welcome message.                                                    *)
(*                                                                         *)
(* The environment of an activation: whether a CodeCatalyst dev            *)
(* environment id is set, the IDE the host's appName stands for, the       *)
(* version in the extension's packageJSON (absent when getExtension finds  *)
(* nothing), extensionVersion, and what an earlier session left under      *)
(* mostRecentVersionKey in globalState.  An optional value is << >>        *)
(* (undefined) or <<v>>.  `warnings` are the warning messages shown (by    *)
(* company name), `toasts` counts the quickstart toasts shown.             *)
(***************************************************************************)
extensionAlphaVersion == "alpha"

notInitialized == "notInitialized"

\* Version strings; a Memento can hold any string, the empty one included.
Versions == {"", "1.0.0", "2.0.0", extensionAlphaVersion}

Optional(S) == {<< >>} \cup {<<v>> : v \in S}

IDE == {"vscode", "cloud9", "sagemaker", "unknown"}

CnRegions == {"cn-north-1"}

\* What metadata.getInstanceIdentity() answers: a region (possibly empty) or a failure.
IdentityResults == {"", "us-east-1", "cn-north-1", "fails"}

ComputeRegions == {notInitialized, "undefined", "unknown", "us-east-1", "cn-north-1"}

getIdeType == ide

isCloud9 == getIdeType = "cloud9"

isSageMaker == ide = "sagemaker"

\* getComputeRegion() throws while the region is notInitialized.
getComputeRegionThrows == computeRegion = notInitialized

\* getComputeRegion()?.startsWith('cn') ?? false
isCn == computeRegion \in CnRegions

\* getIdeProperties() asks isCn() for Cloud9 and SageMaker only.
getIdePropertiesThrows == getIdeType \in {"cloud9", "sagemaker"} /\ getComputeRegionThrows

getIdePropertiesCompany ==
    IF getIdeType \in {"cloud9", "sagemaker"} /\ isCn THEN "Amazon" ELSE "AWS"

\* mostRecentVersion && mostRecentVersion === currVersion: undefined and "" are falsy.
isDifferentVersion(stored, currVersion) ==
    ~(stored # << >> /\ stored[1] # "" /\ stored[1] = currVersion)

\* Variant: the toast is shown.
PromptQuickstartShows(shown) == shown + 1

\* promptQuickstart returns before showing anything.
promptQuickstart(shown) == shown

\* The host starts the extension in some environment.
Activate(dev, appIde, pkg, ext, stored) ==
    /\ ~envReady
    /\ envReady' = TRUE
    /\ devEnvId' = dev
    /\ ide' = appIde
    /\ packageVersion' = pkg
    /\ extensionVersion' = ext
    /\ mostRecentVersion' = stored
    /\ UNCHANGED <<computeRegion, warnings, toasts, welcomeOutcome, welcomes,
                   storedBefore, diffResult>>

\* initializeComputeRegion() with its defaults, at the point its metadata call settles.
initializeComputeRegion(identity) ==
    /\ envReady
    /\ computeRegion' =
          IF isCloud9 \/ isSageMaker
          THEN IF identity = "fails" \/ identity = "" THEN "unknown" ELSE identity
          ELSE "undefined"
    /\ computeRegion' # computeRegion
    /\ UNCHANGED <<envReady, devEnvId, ide, packageVersion, extensionVersion,
                   mostRecentVersion, warnings, toasts, welcomeOutcome, welcomes,
                   storedBefore, diffResult>>

\* A call of isDifferentVersion(context, currVersion); its answer is kept in diffResult.
IsDifferentVersionCall(currVersion) ==
    /\ envReady
    /\ diffResult' = [stored |-> mostRecentVersion, currVersion |-> currVersion,
                      result |-> isDifferentVersion(mostRecentVersion, currVersion)]
    /\ diffResult' # diffResult
    /\ UNCHANGED <<envReady, devEnvId, ide, computeRegion, packageVersion,
                   extensionVersion, mostRecentVersion, warnings, toasts, welcomeOutcome,
                   welcomes, storedBefore>>

setMostRecentVersion ==
    /\ envReady
    /\ mostRecentVersion' = <<extensionVersion>>
    /\ mostRecentVersion' # mostRecentVersion
    /\ UNCHANGED <<envReady, devEnvId, ide, computeRegion, packageVersion,
                   extensionVersion, warnings, toasts, welcomeOutcome, welcomes,
                   storedBefore, diffResult>>

showWelcomeMessage ==
    /\ envReady
    /\ welcomes < MaxWelcomes
    /\ welcomes' = welcomes + 1
    /\ storedBefore' = mostRecentVersion
    /\ IF devEnvId
       THEN /\ welcomeOutcome' = "returned"
            /\ UNCHANGED <<mostRecentVersion, warnings, toasts>>
       ELSE IF packageVersion = <<extensionAlphaVersion>>
       THEN IF getIdePropertiesThrows
            THEN /\ welcomeOutcome' = "threw"
                 /\ UNCHANGED <<mostRecentVersion, warnings, toasts>>
            ELSE /\ warnings' = Append(warnings, getIdePropertiesCompany)
                 /\ welcomeOutcome' = "returned"
                 /\ UNCHANGED <<mostRecentVersion, toasts>>
       ELSE IF isDifferentVersion(mostRecentVersion, extensionVersion)
       THEN /\ mostRecentVersion' = <<extensionVersion>>
            /\ toasts' = IF ~isCloud9 THEN promptQuickstart(toasts) ELSE toasts
            /\ welcomeOutcome' = "returned"
            /\ UNCHANGED warnings
       ELSE /\ welcomeOutcome' = "returned"
            /\ UNCHANGED <<mostRecentVersion, warnings, toasts>>
    /\ UNCHANGED <<envReady, devEnvId, ide, computeRegion, packageVersion,
                   extensionVersion, diffResult>>

NoDiff == [stored |-> << >>, currVersion |-> "none", result |-> TRUE]

WelcomeInit ==
    /\ envReady = FALSE
    /\ devEnvId = FALSE
    /\ ide = "unknown"
    /\ computeRegion = notInitialized
    /\ packageVersion = << >>
    /\ extensionVersion = ""
    /\ mostRecentVersion = << >>
    /\ warnings = << >>
    /\ toasts = 0
    /\ welcomeOutcome = "none"
    /\ welcomes = 0
    /\ storedBefore = << >>
    /\ diffResult = NoDiff

(***************************************************************************)
(* ExtensionUserActivity                                                   *)
(*                                                                         *)
(* The constructor wraps the emitter's fire() in                           *)
(* _.throttle(fn, delay, { leading: true, trailing: false }), which is     *)
(* debounce(fn, delay, { leading, maxWait: delay, trailing }).  The        *)
(* debounce state is lastArgs (a call is pending), lastCallTime,           *)
(* lastInvokeTime and timerId (the time the pending timeout is due).       *)
(* `clock` is the host's time in units of a millisecond; a timeout runs at *)
(* its due time or later.  prevFire, lastFire, justFired, triggered and    *)
(* lastStep record the firings of onUserActivity and the kind of the last  *)
(* step.                                                                   *)
(***************************************************************************)
Undefined == 0 - 1

leading == TRUE

\* Variant: lodash's default, a trailing call.
TrailingDefault == TRUE

trailing == FALSE

wait == delay

maxWait == IF delay > wait THEN delay ELSE wait

\* The events registered when no customEvents are given, and what the listener's
\* condition looks at.
DefaultEvents ==
    {<<"activity", "any">>,
     <<"windowState", "active">>, <<"windowState", "inactive">>,
     <<"textDocument", "noEditor">>, <<"textDocument", "otherDocument">>,
     <<"textDocument", "editedDocument">>,
     <<"selection", "file">>, <<"selection", "output">>,
     <<"visibleRanges", "file">>, <<"visibleRanges", "output">>}

CustomEvents == {<<"custom", "any">>}

\* Whether the listener of the event reaches throttledEmit.
Passes(e) ==
    CASE e[1] = "windowState" -> e[2] # "inactive"
      [] e[1] = "textDocument" -> e[2] = "editedDocument"
      [] e[1] \in {"selection", "visibleRanges"} -> e[2] # "output"
      [] OTHER -> TRUE

shouldInvoke(time) ==
    \/ lastCallTime = Undefined
    \/ time - lastCallTime >= wait
    \/ time - lastCallTime < 0
    \/ time - lastInvokeTime >= maxWait

remainingWait(time) ==
    LET timeWaiting == wait - (time - lastCallTime)
        maxing == maxWait - (time - lastInvokeTime)
    IN  IF timeWaiting < maxing THEN timeWaiting ELSE maxing

\* activityEvent.fire(), as seen by a listener of onUserActivity.
Fire ==
    /\ justFired' = TRUE
    /\ prevFire' = lastFire
    /\ lastFire' = clock

NoFire ==
    /\ justFired' = FALSE
    /\ UNCHANGED <<prevFire, lastFire>>

\* new ExtensionUserActivity(delay, customEvents)
Construct(d, custom) ==
    /\ ~built
    /\ built' = TRUE
    /\ delay' = d
    /\ customEvents' = custom
    /\ lastStep' = "construct"
    /\ NoFire
    /\ UNCHANGED <<disposed, clock, lastArgs, lastCallTime, lastInvokeTime, timerId,
                   triggered>>

\* throttledEmit(event): the debounced function.
throttledEmit ==
    /\ lastCallTime' = clock
    /\ IF shouldInvoke(clock)
       THEN \* leadingEdge when no timer is pending, else the maxWait restart; both invoke.
            /\ timerId' = clock + wait
            /\ lastInvokeTime' = clock
            /\ IF timerId = Undefined /\ ~leading
               THEN lastArgs' = TRUE /\ NoFire
               ELSE lastArgs' = FALSE /\ Fire
       ELSE /\ lastArgs' = TRUE
            /\ timerId' = IF timerId = Undefined THEN clock + wait ELSE timerId
            /\ NoFire
            /\ UNCHANGED lastInvokeTime

\* A registered event reaches its listener.
Event(e) ==
    /\ built /\ ~disposed
    /\ e \in (IF customEvents THEN CustomEvents ELSE DefaultEvents)
    /\ IF Passes(e)
       THEN /\ throttledEmit
            /\ triggered' = TRUE
            /\ lastStep' = "trigger"
       ELSE /\ lastStep' = "filtered"
            /\ NoFire
            /\ UNCHANGED <<lastArgs, lastCallTime, lastInvokeTime, timerId, triggered>>
    /\ UNCHANGED <<built, customEvents, delay, disposed, clock>>

\* The pending timeout runs: timerExpired, then trailingEdge or a new timeout.
timerExpired ==
    /\ timerId # Undefined
    /\ clock >= timerId
    /\ lastStep' = "timer"
    /\ IF shouldInvoke(clock)
       THEN /\ timerId' = Undefined
            /\ lastArgs' = FALSE
            /\ IF trailing /\ lastArgs
               THEN lastInvokeTime' = clock /\ Fire
               ELSE NoFire /\ UNCHANGED lastInvokeTime
       ELSE /\ timerId' = clock + remainingWait(clock)
            /\ NoFire
            /\ UNCHANGED <<lastArgs, lastInvokeTime>>
    /\ UNCHANGED <<built, customEvents, delay, disposed, clock, lastCallTime, triggered>>

\* dispose(): every listener and the emitter are disposed.
dispose ==
    /\ built /\ ~disposed
    /\ disposed' = TRUE
    /\ lastStep' = "dispose"
    /\ NoFire
    /\ UNCHANGED <<built, customEvents, delay, clock, lastArgs, lastCallTime,
                   lastInvokeTime, timerId, triggered>>

\* A millisecond passes.
ClockTick ==
    /\ built
    /\ clock < MaxTime
    /\ clock' = clock + 1
    /\ lastStep' = "tick"
    /\ NoFire
    /\ UNCHANGED <<built, customEvents, delay, disposed, lastArgs, lastCallTime,
                   lastInvokeTime, timerId, triggered>>

ActivityInit ==
    /\ built = FALSE
    /\ customEvents = FALSE
    /\ delay = 0
    /\ disposed = FALSE
    /\ clock = 0
    /\ lastArgs = FALSE
    /\ lastCallTime = Undefined
    /\ lastInvokeTime = 0
    /\ timerId = Undefined
    /\ prevFire = Undefined
    /\ lastFire = Undefined
    /\ justFired = FALSE
    /\ triggered = FALSE
    /\ lastStep = "none"

vars == <<storeVars, initVars, childVars, welcomeVars, activityVars>>

Init == StoreInit /\ HandlerInit /\ ChildrenInit /\ WelcomeInit /\ ActivityInit

WelcomeNext ==
    \/ \E dev \in BOOLEAN, appIde \in IDE, pkg \in Optional(Versions), ext \in Versions,
          stored \in Optional(Versions) :
          Activate(dev, appIde, pkg, ext, stored) /\ UNCHANGED <<storeVars, notWelcome>>
    \/ \E identity \in IdentityResults :
          initializeComputeRegion(identity) /\ UNCHANGED <<storeVars, notWelcome>>
    \/ \E currVersion \in Versions :
          IsDifferentVersionCall(currVersion) /\ UNCHANGED <<storeVars, notWelcome>>
    \/ setMostRecentVersion /\ UNCHANGED <<storeVars, notWelcome>>
    \/ showWelcomeMessage /\ UNCHANGED <<storeVars, notWelcome>>

ActivityNext ==
    \/ \E d \in 0..MaxDelay, custom \in BOOLEAN :
          Construct(d, custom) /\ UNCHANGED <<storeVars, notActivity>>
    \/ \E e \in DefaultEvents \cup CustomEvents : Event(e) /\ UNCHANGED <<storeVars, notActivity>>
    \/ timerExpired /\ UNCHANGED <<storeVars, notActivity>>
    \/ dispose /\ UNCHANGED <<storeVars, notActivity>>
    \/ ClockTick /\ UNCHANGED <<storeVars, notActivity>>

WelcomeSpec == Init /\ [][WelcomeNext]_vars

ActivitySpec == Init /\ [][ActivityNext]_vars

HandlerNext ==
    \/ \E path \in Paths : CreateContext(path) /\ UNCHANGED <<storeVars, notHandler>>
    \/ \E i \in Inits : initMessageHandler(i) /\ UNCHANGED <<storeVars, notHandler>>
    \/ \E i \in Inits, s \in ChatAuthStates :
          AuthResolved(i, s) /\ UNCHANGED <<storeVars, notHandler>>
    \/ \E i \in Inits : AuthRejected(i) /\ UNCHANGED <<storeVars, notHandler>>

ChildrenNext ==
    \/ \E nodePolicy \in Policies, versionList \in VersionLists :
          CreateNode(nodePolicy, versionList) /\ UNCHANGED <<storeVars, notChildren>>
    \/ getChildren /\ UNCHANGED <<storeVars, notChildren>>
    \/ YieldVersion /\ UNCHANGED <<storeVars, notChildren>>
    \/ ReturnChildren /\ UNCHANGED <<storeVars, notChildren>>
    \/ ListingFails /\ UNCHANGED <<storeVars, notChildren>>

HandlerSpec == Init /\ [][HandlerNext]_vars

ChildrenSpec == Init /\ [][ChildrenNext]_vars

StoreSpec == Init /\ [][StoreNext]_vars

RaceSpec == Init /\ [][RaceNext]_vars

(***************************************************************************)
(* Properties of NotificationInfoStore                                     *)
(***************************************************************************)
WritingViewGlobal(n) ==
    \E p \in Procs : pc[p] = "read" /\ call[p].kind = "addView"
                     /\ call[p].store = "global" /\ call[p].name = n

\* C1: from a global store without a record for the name, k >= 1 sequential
\* addNewViewToNotificationInGlobalStore(name) calls leave a record with
\* viewsCounter = k and lastSeen >= the clock at the start of the latest call.
C1_SequentialViews ==
    \A n \in Names :
        (seqFromEmpty[n] /\ seqViews[n] >= 1 /\ ~WritingViewGlobal(n)) =>
            LET got == getRecordFromGlobalStore(n)
            IN  /\ got # << >>
                /\ got[1].notificationName = n
                /\ got[1].viewsCounter = seqViews[n]
                /\ got[1].lastSeen >= lastViewStart[n]

\* C1 witness: two calls completed from the empty store, the clock having advanced.
C1_Witness ==
    \E n \in Names :
        /\ seqFromEmpty[n] /\ seqViews[n] = 2 /\ NoneInFlight
        /\ getRecordFromGlobalStore(n) # << >>
        /\ getRecordFromGlobalStore(n)[1].viewsCounter = 2
        /\ lastViewStart[n] >= 1

\* What the claim expects a get to return after setMuteStatus(name, isMuted) that read `was`.
MutedFrom(was, name, isMuted) ==
    IF was = << >>
    THEN [notificationName |-> name, viewsCounter |-> 0, lastSeen |-> 0, muted |-> isMuted]
    ELSE [notificationName |-> was[1].notificationName, viewsCounter |-> was[1].viewsCounter,
          lastSeen |-> was[1].lastSeen, muted |-> isMuted]

\* C2: after setMuteStatusInWorkplaceStore(name, true), getRecordFromWorkplaceStore(name)
\* returns a muted record whose other fields are those stored before the call (or those
\* of the empty record when none was stored).
C2_MutePreservesFields ==
    \A p \in Procs :
        (pc[p] = "updating" /\ call[p].kind = "setMute" /\ call[p].store = "workplace"
         /\ call[p].muted) =>
            getRecordFromWorkplaceStore(call[p].name)
                = << MutedFrom(seen[p], call[p].name, TRUE) >>

\* C2 witness: a stored, unmuted record with a non-zero counter has just been muted.
C2_Witness ==
    \E p \in Procs :
        /\ pc[p] = "updating" /\ call[p].kind = "setMute" /\ call[p].store = "workplace"
        /\ call[p].muted
        /\ seen[p] # << >> /\ seen[p][1].viewsCounter = 1 /\ ~seen[p][1].muted
        /\ getRecordFromWorkplaceStore(call[p].name)[1].muted

\* This step is invocation p calling update() on the key of name n in store s.
UpdatesKey(p, s, n) ==
    /\ pc'[p] = "updating" /\ pc[p] # "updating"
    /\ IF pc[p] = "idle"
       THEN call'[p].store = s /\ call'[p].name = n
       ELSE call[p].store = s /\ call[p].name = n /\ call[p].kind # "get"

\* C10: an operation on a name in one store changes only the key "NOTIFICATION_INFO_" +
\* name of that store; every other key of either store keeps its value, and a get
\* changes nothing.
C10_Frame ==
    [][\A s \in Stores, k \in Keys :
          (ValueAt(s, k))' # ValueAt(s, k)
              => \E p \in Procs, n \in Names :
                    UpdatesKey(p, s, n) /\ k = "NOTIFICATION_INFO_" \o n]_vars

\* C10 witness: a write to one name of the workplace store next to a record of the other
\* name and a record of the same name in the global store.
C10_Witness ==
    \E p \in Procs :
        /\ pc[p] = "updating" /\ call[p].kind = "addView" /\ call[p].store = "workplace"
        /\ call[p].name = NameSeq[2]
        /\ getRecordFromWorkplaceStore(NameSeq[1]) # << >>
        /\ getRecordFromGlobalStore(NameSeq[2]) # << >>
        /\ getRecordFromGlobalStore(NameSeq[2])[1].viewsCounter = 1
        /\ getRecordFromWorkplaceStore(NameSeq[2])[1].viewsCounter = 1

\* The record an operation would store if it applied its change to the value `was`.
ChangeOn(c, was, time) ==
    LET base == IF was = << >>
                THEN [notificationName |-> c.name, viewsCounter |-> 0, lastSeen |-> 0,
                      muted |-> FALSE]
                ELSE was[1]
    IN  IF c.kind = "setMute"
        THEN [base EXCEPT !.muted = c.muted]
        ELSE [base EXCEPT !.viewsCounter = base.viewsCounter + 1, !.lastSeen = time]

UpdateRuns(q) == pc[q] = "read" /\ pc'[q] = "updating"

\* What the object an invocation holds contains now.
Held(q) == IF record[q] = 0 THEN << >> ELSE << heap[record[q]] >>

\* C5 as stated: the record stored by whichever update runs last is that operation's
\* change on the record it read, never a merge with a change made in between.
C5_LastWriterOnly ==
    [][\A q \in Procs :
          UpdateRuns(q) =>
              (ValueAt(call[q].store, StorageKey \o call[q].name))'
                  = << ChangeOn(call[q], seen[q], now) >>]_vars

\* C5 as amended: the record stored is the one passed to the update that runs last, the
\* operation's change on the object it holds.  That is its change on what it read (the
\* change made in between is lost) when it read undefined or get() returns copies; when
\* get() handed out the stored object, it holds whatever the operations sharing the
\* object have assigned to it.
C5_LastWriterWins ==
    [][\A q \in Procs :
          UpdateRuns(q) =>
              /\ (ValueAt(call[q].store, StorageKey \o call[q].name))'
                     = << ChangeOn(call[q], Held(q), now) >>
              /\ (seen[q] = << >> \/ ~getShares) => Held(q) = seen[q]]_vars

BothWrote(p, q) ==
    /\ p # q /\ pc[p] = "updating" /\ pc[q] = "updating"
    /\ call[p].store = call[q].store /\ call[p].name = call[q].name
    /\ call[p].kind = "setMute" /\ call[p].muted /\ call[q].kind = "addView"

\* C5 witness: a mute and a view that read the same stored record have both written; under
\* a sharing get() the stored record carries both changes.
C5_Witness ==
    \E p, q \in Procs :
        /\ BothWrote(p, q)
        /\ seen[p] = seen[q] /\ seen[p] # << >> /\ ~seen[p][1].muted
        /\ LET got == ValueAt(call[p].store, StorageKey \o call[p].name)
           IN  got[1].muted /\ got[1].viewsCounter = seen[p][1].viewsCounter + 1

\* A lost update: both read undefined, the stored record has one of the two changes only.
C5_LostUpdate ==
    \E p, q \in Procs :
        /\ BothWrote(p, q)
        /\ seen[p] = << >> /\ seen[q] = << >>
        /\ LET got == ValueAt(call[p].store, StorageKey \o call[p].name)
           IN  ~(got[1].muted /\ got[1].viewsCounter = 1)

(***************************************************************************)
(* Claims about initMessageHandler.                                        *)
(***************************************************************************)
\* The last path component, described without the scanning loop: drop the trailing
\* separators, then keep what follows the last separator that remains.
Trimmed(path) ==
    LET keep == {k \in 0..Len(path) : \A j \in (k + 1)..Len(path) : path[j] = "/"}
        n == CHOOSE k \in keep : \A m \in keep : k <= m
    IN  SubSeq(path, 1, n)

LastComponent(path) ==
    LET tr == Trimmed(path)
        cuts == {k \in 0..Len(tr) : k = 0 \/ tr[k] = "/"}
        c == CHOOSE k \in cuts : \A m \in cuts : m <= k
    IN  SubSeq(tr, c + 1, Len(tr))

\* C3: every response message the handler has posted carries the context's
\* defaultTemplatePath as templateFilePath and that path's last component (its
\* basename) as templateFileName, whatever the template path is.
C3_ResponsePath ==
    \A k \in 1..Len(posted) :
        /\ posted[k].message.templateFilePath = defaultTemplatePath
        /\ posted[k].message.templateFileName = LastComponent(posted[k].message.templateFilePath)

\* C3 is exercised: a response was posted for a path with a directory part and trailing
\* separator, whose file name is a proper part of the path.
C3_Witness ==
    /\ Len(posted) >= 1
    /\ defaultTemplatePath = <<"/", "a", "/">>
    /\ posted[1].message.templateFileName = <<"a">>

PostedBy(i) == {k \in 1..Len(posted) : posted[k].by = i}

\* C9: an invocation has posted nothing before its auth state resolved; once it has
\* returned it has posted exactly one message, a RESPONSE to INIT whose
\* isConnectedToCodeWhisperer is true exactly when the resolved state is connected or
\* expired; an invocation whose auth lookup failed has posted nothing and ended in error.
C9_OneResponseAfterAuth ==
    \A i \in Inits :
        /\ initPc[i] \in {"noContext", "idle", "awaitAuth", "threw"} => PostedBy(i) = {}
        /\ initPc[i] \in {"noContext", "idle", "awaitAuth", "threw"} => authState[i] = "none"
        /\ initPc[i] = "returned" =>
              /\ Cardinality(PostedBy(i)) = 1
              /\ authState[i] \in ChatAuthStates
              /\ \A k \in PostedBy(i) :
                    /\ posted[k].message.messageType = "RESPONSE"
                    /\ posted[k].message.command = "INIT"
                    /\ posted[k].message.isConnectedToCodeWhisperer
                          <=> authState[i] \in {"connected", "expired"}

\* C9 is exercised: one invocation answered an expired session with a connected flag,
\* another failed in the auth lookup and posted nothing.
C9_Witness ==
    /\ initPc[1] = "returned"
    /\ authState[1] = "expired"
    /\ Len(posted) = 1
    /\ posted[1].message.isConnectedToCodeWhisperer
    /\ initPc[2] = "threw"

(***************************************************************************)
(* Claim about getChildren.                                                *)
(***************************************************************************)
Occurrences(seq, x) == Cardinality({k \in 1..Len(seq) : seq[k] = x})

\* C4: when getChildren has returned, it returned as many nodes as the listing yielded
\* versions, every one an IotPolicyVersionNode on the node's own policy, and each
\* yielded version is carried, unaltered, by as many nodes as times it was yielded.
C4_OneNodePerVersion ==
    childPc = "done" =>
        /\ yielded = versions
        /\ Len(children) = Len(versions)
        /\ \A k \in 1..Len(children) :
              /\ children[k].type = "IotPolicyVersionNode"
              /\ children[k].policy = policy
        /\ \A v \in PolicyVersions :
              Occurrences([k \in 1..Len(children) |-> children[k].version], v)
                  = Occurrences(versions, v)

\* C4 is exercised: a listing of three versions, a default one among them, was wrapped.
C4_Witness ==
    /\ childPc = "done"
    /\ Len(versions) = 3
    /\ Len(children) = 3
    /\ \E k \in 1..3 : versions[k].isDefaultVersion
    /\ \E k \in 1..3 : ~versions[k].isDefaultVersion

(***************************************************************************)
(* Claims about the welcome message.                                       *)
(***************************************************************************)
\* C7: isDifferentVersion answers false exactly when the version key holds a value and
\* that value is currVersion, and true otherwise, for every stored value and currVersion.
\* (As documented; the code answers true for a stored "" that matches.)
C7_FalseIffStoredMatches ==
    diffResult.currVersion # "none" =>
        (diffResult.result = FALSE <=> diffResult.stored = <<diffResult.currVersion>>)

IsAlpha == packageVersion = <<extensionAlphaVersion>>

WelcomeRuns == welcomes' = welcomes + 1

C6_ThrottledFirings ==
    [][/\ justFired' =>
             /\ lastStep' = "trigger"
             /\ lastFire' = clock
             /\ lastFire = Undefined \/ clock - lastFire >= delay
       /\ lastStep' = "trigger" /\ ~triggered => justFired'
       /\ lastStep' = "trigger" /\ lastFire # Undefined /\ clock - lastFire < delay
             => ~justFired' /\ lastFire' = lastFire
       /\ lastStep' = "timer" => ~justFired' /\ lastFire' = lastFire]_vars

\* C6 is exercised: with a delay of 2, two firings exactly 2 apart, then a triggering
\* event 1 after the second firing that fired nothing.
C6_Witness ==
    /\ delay = 2
    /\ prevFire # Undefined
    /\ lastFire - prevFire = 2
    /\ clock - lastFire = 1
    /\ lastStep = "trigger"
    /\ ~justFired

\* A timer step that found a suppressed call pending and dropped it.
C6_DroppedTrailing ==
    /\ delay = 2
    /\ lastStep = "timer"
    /\ lastCallTime > lastFire
    /\ lastFire # Undefined
    /\ timerId = Undefined

====
